---- MODULE Spec2Model ----
(***************************************************************************)
(* Model of the reporting scripts of the repository:                       *)
(*   src/index.ts          live watch of "guesses" (lastSeen tracking)     *)
(*   src/unnamed/part_000  gameStats-today.ts (field probe, fallback scan) *)
(*   src/stats-today.ts    guesses of the day grouped by e-mail            *)
(*                                                                         *)
(* Time is in milliseconds, as in the code.  TLC's integers are 32 bits    *)
(* wide, so instants are counted from 2025-10-15T00:00:00Z instead of      *)
(* 1970-01-01, and the calendar is modelled from 2025-10-01 to 2025-11-08. *)
(***************************************************************************)
EXTENDS Integers, Sequences, FiniteSets, TLC

\* The watch script (src/index.ts).
VARIABLES main, lastSeen, initDocs, initNext, inv, nDelivered, userEmailCache

\* The two reports (src/unnamed/part_000, src/stats-today.ts).
VARIABLES script, pc, coll, window, fieldIdx, outcomes, fetchAllCount, fallbackOutcome, docs,
          usedField, diagnostic, rowIdx, rows, table, emailCache, exitCode

\* One call of dayRangeUTC.
VARIABLES dayIn, dayOut

watchVars == <<main, lastSeen, initDocs, initNext, inv, nDelivered, userEmailCache>>

reportVars == <<script, pc, coll, window, fieldIdx, outcomes, fetchAllCount, fallbackOutcome,
                docs, usedField, diagnostic, rowIdx, rows, table, emailCache, exitCode>>

dayVars == <<dayIn, dayOut>>

vars == <<watchVars, reportVars, dayVars>>

\* A missing string (no playerId, no pending lookup, no used field).
None == "none"

\* null where a Date is expected, and the getTime() of an Invalid Date.
NoDate == 0 - 2147483647

(***************************************************************************)
(* Field values as the Firestore SDK hands them to the scripts.            *)
(* kind        a                   b                                       *)
(* null, undefined, nan, zero, emptystr, badstr, map, badToDate            *)
(* number      ms (new Date(a))                                            *)
(* datestr     ms the string parses to                                     *)
(* secondsOnly seconds                                                     *)
(* pojo        seconds             nanoseconds                             *)
(* pojoNaN     (seconds is NaN)    nanoseconds                             *)
(* timestamp   seconds             nanoseconds   (has a toDate method)     *)
(* date        ms                                                          *)
(***************************************************************************)
Val(kind, a, b) == [kind |-> kind, a |-> a, b |-> b]

Null == Val("null", 0, 0)
Undefined == Val("undefined", 0, 0)

\* 1970-01-01T00:00:00Z lies before every modelled instant.
Epoch1970 == 0 - 2000000000

\* JavaScript truthiness of a field value (`!v`).
Falsy(v) == v.kind \in {"null", "undefined", "nan", "zero", "emptystr"}

IsObject(v) == v.kind \in {"map", "badToDate", "secondsOnly", "pojo", "pojoNaN", "timestamp", "date"}

\* seconds * 1000 + Math.floor(nanoseconds / 1_000_000)
PojoMs(sec, ns) == sec * 1000 + (ns \div 1000000)

\* Timestamp.toDate(): the instant of a Firestore Timestamp.
TimestampToDate(v) == PojoMs(v.a, v.b)

\* new Date(v).getTime() for a string or a number: an instant or NaN.
NewDateMs(v) ==
    CASE v.kind = "number" -> v.a
      [] v.kind = "zero" -> Epoch1970
      [] v.kind = "datestr" -> v.a
      [] OTHER -> NoDate

isFSTimestampMethod(v) == ~Falsy(v) /\ IsObject(v) /\ v.kind = "timestamp"

isFSTimestampPojo(v) == ~Falsy(v) /\ IsObject(v) /\ v.kind \in {"pojo", "pojoNaN", "timestamp"}

\* toDateStrict of src/index.ts: an instant (ms) or NoDate (null).
toDateStrict(v) ==
    IF Falsy(v) /\ v.kind # "zero" THEN NoDate
    ELSE IF isFSTimestampMethod(v) THEN TimestampToDate(v)
    ELSE IF isFSTimestampPojo(v)
         THEN IF v.kind = "pojoNaN" THEN NoDate ELSE PojoMs(v.a, v.b)
    ELSE IF v.kind = "date" THEN v.a
    ELSE IF v.kind \in {"zero", "number", "nan", "emptystr", "badstr", "datestr"}
         THEN NewDateMs(v)
    ELSE NoDate

(***************************************************************************)
(* Local-day window: tzOffsetMsAt and dayRangeUTC, the same code in        *)
(* src/unnamed/part_000 and src/stats-today.ts.                            *)
(***************************************************************************)
MsPerSecond == 1000
MsPerMinute == 60 * MsPerSecond
MsPerHour == 60 * MsPerMinute
MsPerDay == 24 * MsPerHour

\* Days of 2025 before the first of a month (0-based month, October and November).
DaysBeforeMonth(month0) == IF month0 = 9 THEN 273 ELSE 304

\* Day of the year 2025 (1 January = 0) of the model's origin, 15 October.
OriginDayOfYear == DaysBeforeMonth(9) + 14

\* Date.UTC(year, month0, day, hour, minute, second, 0): day overflow rolls into
\* the next month, as in JavaScript.
DateUTC(year, month0, day, hour, minute, second) ==
    (DaysBeforeMonth(month0) + (day - 1) - OriginDayOfYear) * MsPerDay
        + hour * MsPerHour + minute * MsPerMinute + second * MsPerSecond

TimeZones == {"America/Indiana/Indianapolis", "Europe/Berlin", "Australia/Sydney", "UTC"}

\* The UTC offset of a zone at an instant (the tz database the Intl formatter
\* reads): Indianapolis leaves EDT on 2 November 06:00Z, Berlin leaves CEST on
\* 26 October 01:00Z, Sydney enters AEDT on 4 October 16:00Z.
UtcOffsetMs(timeZone, t) ==
    CASE timeZone = "America/Indiana/Indianapolis" ->
             IF t < DateUTC(2025, 10, 2, 6, 0, 0) THEN (0 - 4) * MsPerHour ELSE (0 - 5) * MsPerHour
      [] timeZone = "Europe/Berlin" ->
             IF t < DateUTC(2025, 9, 26, 1, 0, 0) THEN 2 * MsPerHour ELSE MsPerHour
      [] timeZone = "Australia/Sydney" ->
             IF t < DateUTC(2025, 9, 4, 16, 0, 0) THEN 10 * MsPerHour ELSE 11 * MsPerHour
      [] OTHER -> 0

\* dtf.formatToParts(date): the wall-clock fields of the instant in the zone.
formatToParts(date, timeZone) ==
    LET local == date + UtcOffsetMs(timeZone, date)
        dayOfYear == OriginDayOfYear + (local \div MsPerDay)
        inDay == local % MsPerDay
        month0 == IF dayOfYear < DaysBeforeMonth(10) THEN 9 ELSE 10
    IN  [year |-> 2025,
         month |-> month0 + 1,
         day |-> dayOfYear - DaysBeforeMonth(month0) + 1,
         hour |-> inDay \div MsPerHour,
         minute |-> (inDay % MsPerHour) \div MsPerMinute,
         second |-> (inDay % MsPerMinute) \div MsPerSecond]

tzOffsetMsAt(date, timeZone) ==
    LET map == formatToParts(date, timeZone)
        wallUTC == DateUTC(map.year, map.month - 1, map.day, map.hour, map.minute, map.second)
    IN  wallUTC - date

\* dayRangeUTC of gameStats-today.ts (src/unnamed/part_000).
dayRangeUTC(year, month1Based, day, timeZone) ==
    LET probe == DateUTC(year, month1Based - 1, day, 12, 0, 0)
        offsetMs == tzOffsetMsAt(probe, timeZone)
        localMidnightUTCms == DateUTC(year, month1Based - 1, day, 0, 0, 0) - offsetMs
        nextMidnightUTCms == DateUTC(year, month1Based - 1, day + 1, 0, 0, 0) - offsetMs
    IN  [start |-> localMidnightUTCms, end |-> nextMidnightUTCms]

\* dayRangeUTC of stats-today.ts: the timeZone argument is ignored.
dayRangeUTCStatsToday(year, month1Based, day, timeZone) ==
    LET tz == "America/Indiana/Indianapolis"
        probe == DateUTC(year, month1Based - 1, day, 12, 0, 0)
        offsetMs == tzOffsetMsAt(probe, tz)
        localMidnightUTCms == DateUTC(year, month1Based - 1, day, 0, 0, 0) - offsetMs
        nextMidnightUTCms == DateUTC(year, month1Based - 1, day + 1, 0, 0, 0) - offsetMs
    IN  [start |-> localMidnightUTCms, end |-> nextMidnightUTCms]

(***************************************************************************)
(* src/index.ts: the watch script.                                         *)
(***************************************************************************)

\* Snapshot callbacks the model delivers.
MaxSnapshots == 2

\* limit(N) of the initial and the live query.
N == 10

\* The documents "guesses" may hold; a document's submittedAt never changes.
GuessUniverse ==
    { [id |-> "g1", submittedAt |-> Val("timestamp", 1, 0), playerId |-> None],
      [id |-> "g2", submittedAt |-> Val("timestamp", 2, 0), playerId |-> "p1"],
      [id |-> "g3", submittedAt |-> Val("pojo", 2, 500000000), playerId |-> "p1"],
      [id |-> "g4", submittedAt |-> Val("badstr", 0, 0), playerId |-> "p1"] }

\* Firestore's order of values of different types: timestamps, then strings, then maps.
TypeRank(v) ==
    CASE v.kind = "timestamp" -> 4
      [] v.kind \in {"badstr", "datestr", "emptystr"} -> 5
      [] v.kind \in {"pojo", "pojoNaN", "map", "secondsOnly", "badToDate"} -> 10
      [] OTHER -> 1

IdRank(id) == CHOOSE k \in 1..4 : id = <<"g1", "g2", "g3", "g4">>[k]

\* a is listed before b by orderBy("submittedAt", "desc").
ServerBefore(a, b) ==
    LET ra == TypeRank(a.submittedAt)
        rb == TypeRank(b.submittedAt)
        ta == IF a.submittedAt.kind = "timestamp" THEN TimestampToDate(a.submittedAt) ELSE 0
        tb == IF b.submittedAt.kind = "timestamp" THEN TimestampToDate(b.submittedAt) ELSE 0
    IN  \/ ra > rb
        \/ ra = rb /\ ta > tb
        \/ ra = rb /\ ta = tb /\ IdRank(a.id) > IdRank(b.id)

RECURSIVE OrderDesc(_)
OrderDesc(S) ==
    IF S = {} THEN <<>>
    ELSE LET first == CHOOSE d \in S : \A e \in S \ {d} : ServerBefore(d, e)
         IN  <<first>> \o OrderDesc(S \ {first})

Take(s, n) == IF Len(s) <= n THEN s ELSE SubSeq(s, 1, n)

\* query(collection(db, "guesses"), orderBy("submittedAt", "desc"), limit(N)) on content S
liveQuery(S) == Take(OrderDesc(S), N)

\* The getTime() of what toDateStrict returns, 0 for null (the sort's `?? 0`).
TimeOrZero(d) == IF toDateStrict(d.submittedAt) = NoDate THEN 0 ELSE toDateStrict(d.submittedAt)

\* Variant of IsFresh: `>=` for `>`.
IsFreshOrEqual(d, seen) ==
    /\ toDateStrict(d.submittedAt) # NoDate
    /\ seen # NoDate
    /\ toDateStrict(d.submittedAt) >= seen

\* The filter of the snapshot callback: strictly newer than lastSeen.
IsFresh(d, seen) ==
    /\ toDateStrict(d.submittedAt) # NoDate
    /\ seen # NoDate
    /\ toDateStrict(d.submittedAt) > seen

RECURSIVE FilterFresh(_, _)
FilterFresh(s, seen) ==
    IF s = <<>> THEN <<>>
    ELSE IF IsFresh(Head(s), seen) THEN <<Head(s)>> \o FilterFresh(Tail(s), seen)
    ELSE FilterFresh(Tail(s), seen)

\* Array.prototype.sort((a, b) => da - dbt): stable, ascending.
RECURSIVE InsertByTime(_, _)
InsertByTime(d, s) ==
    IF s = <<>> THEN <<d>>
    ELSE IF TimeOrZero(Head(s)) <= TimeOrZero(d) THEN <<Head(s)>> \o InsertByTime(d, Tail(s))
    ELSE <<d>> \o s

RECURSIVE SortByTime(_)
SortByTime(s) == IF s = <<>> THEN <<>> ELSE InsertByTime(s[Len(s)], SortByTime(SubSeq(s, 1, Len(s) - 1)))

Fresh(nowDocs, seen) == SortByTime(FilterFresh(nowDocs, seen))

\* getUserEmail up to its await: the answer without a fetch, or "fetch".
EmailBeforeAwait(cache, playerId) ==
    IF playerId = None THEN "(no playerId)"
    ELSE IF playerId \in DOMAIN cache THEN cache[playerId]
    ELSE "fetch"

\* The "users" collection: p1 has an e-mail, p2 has none, any other id is absent.
UserExists(playerId) == playerId \in {"p1", "p2"}

UserEmailField(playerId) == IF playerId = "p1" THEN "user@example.com" ELSE None

\* getUserEmail after its await on getDoc: what it returns when the fetch succeeds,
\* and "(error)" when the fetch throws.
FetchedEmail(playerId) ==
    IF UserExists(playerId)
    THEN IF UserEmailField(playerId) # None THEN UserEmailField(playerId) ELSE "(no email)"
    ELSE "(not found)"

EmailAnswers(playerId, pending) ==
    IF pending = "fetch" THEN {FetchedEmail(playerId), "(error)"} ELSE {pending}

\* userEmailCache after the await: every fetched answer but "(error)" is cached.
CacheAfter(cache, playerId, pending, answer) ==
    IF pending # "fetch" \/ answer = "(error)" THEN cache
    ELSE [p \in DOMAIN cache \cup {playerId} |-> IF p = playerId THEN answer ELSE cache[p]]

Ids(s) == [k \in 1..Len(s) |-> s[k].id]

IdleInvocation ==
    [status |-> "idle", snap |-> <<>>, startSeen |-> NoDate, fresh |-> <<>>,
     next |-> 0, pending |-> None, printed |-> <<>>]

\* The script is not the one that runs.
IdleWatch ==
    /\ main = "idle"
    /\ lastSeen = NoDate
    /\ initDocs = <<>>
    /\ initNext = 0
    /\ inv = <<>>
    /\ nDelivered = 0
    /\ userEmailCache = <<>>

IdleReports ==
    /\ script = "idle"
    /\ pc = "idle"
    /\ coll = {}
    /\ window = [start |-> 0, end |-> 0]
    /\ fieldIdx = 0
    /\ outcomes = <<>>
    /\ fetchAllCount = 0
    /\ fallbackOutcome = None
    /\ docs = <<>>
    /\ usedField = None
    /\ diagnostic = None
    /\ rowIdx = 0
    /\ rows = <<>>
    /\ table = <<>>
    /\ emailCache = <<>>
    /\ exitCode = 0 - 1

IdleDay ==
    /\ dayIn = [variant |-> "idle", timeZone |-> "UTC", month |-> 10, day |-> 1]
    /\ dayOut = [start |-> 0, end |-> 0, done |-> FALSE]

InitWatch ==
    /\ IdleReports
    /\ IdleDay
    /\ main = "start"
    /\ lastSeen = NoDate
    /\ initDocs = <<>>
    /\ initNext = 0
    /\ inv = [i \in 1..MaxSnapshots |-> IdleInvocation]
    /\ nDelivered = 0
    /\ userEmailCache = <<>>

\* Initial load, lines 134-146: the fetch, and the empty case.
InitialLoad ==
    /\ main = "start"
    /\ \E S \in SUBSET GuessUniverse :
         LET loaded == liveQuery(S)
         IN  /\ initDocs' = loaded
             /\ initNext' = IF loaded = <<>> THEN 0 ELSE 1
             /\ main' = IF loaded = <<>> THEN "loaded" ELSE "printing"
    /\ UNCHANGED <<lastSeen, inv, nDelivered, userEmailCache>>
    /\ UNCHANGED <<reportVars, dayVars>>

\* The initial getDocs rejects: the async main ends with it, nothing is subscribed.
InitialLoadFails ==
    /\ main = "start"
    /\ main' = "failed"
    /\ UNCHANGED <<lastSeen, initDocs, initNext, inv, nDelivered, userEmailCache>>
    /\ UNCHANGED <<reportVars, dayVars>>

\* Initial load, lines 140-143: one awaited printDoc, and after the last one the
\* baseline; `docs` is local to the block and gone after it.
InitialPrint ==
    /\ main = "printing"
    /\ LET d == initDocs[initNext]
           pending == EmailBeforeAwait(userEmailCache, d.playerId)
       IN  /\ \E answer \in EmailAnswers(d.playerId, pending) :
                userEmailCache' = CacheAfter(userEmailCache, d.playerId, pending, answer)
           /\ IF initNext = Len(initDocs)
              THEN /\ main' = "loaded"
                   /\ lastSeen' = IF toDateStrict(initDocs[1].submittedAt) # NoDate
                                  THEN toDateStrict(initDocs[1].submittedAt)
                                  ELSE lastSeen
                   /\ initDocs' = <<>>
                   /\ initNext' = 0
              ELSE /\ initNext' = initNext + 1
                   /\ UNCHANGED <<main, lastSeen, initDocs>>
    /\ UNCHANGED <<inv, nDelivered>>
    /\ UNCHANGED <<reportVars, dayVars>>

\* onSnapshot(liveQuery, callback), line 152.
Subscribe ==
    /\ main = "loaded"
    /\ main' = "watching"
    /\ UNCHANGED <<lastSeen, initDocs, initNext, inv, nDelivered, userEmailCache>>
    /\ UNCHANGED <<reportVars, dayVars>>

\* The callback from its start to its first await (or its return), lines 153-176.
\* onSnapshot does not wait for the promise the callback returns: a snapshot is
\* delivered whether or not earlier invocations are still suspended.
SnapshotStart(seen, nowDocs, cache) ==
    IF nowDocs = <<>>
    THEN [IdleInvocation EXCEPT !.status = "done", !.startSeen = seen]
    ELSE IF seen = NoDate
    THEN [IdleInvocation EXCEPT !.status = "done", !.snap = nowDocs, !.startSeen = seen]
    ELSE LET fresh == Fresh(nowDocs, seen)
         IN  IF fresh = <<>>
             THEN [IdleInvocation EXCEPT !.status = "done", !.snap = nowDocs, !.startSeen = seen]
             ELSE [status |-> "running", snap |-> nowDocs, startSeen |-> seen, fresh |-> fresh,
                   next |-> 1, pending |-> EmailBeforeAwait(cache, fresh[1].playerId),
                   printed |-> <<>>]

\* Variant of BaselineSeen: the baseline is never recorded.
BaselineSeenDropped(seen, nowDocs) == seen

\* The baseline branch, lines 156-160.
BaselineSeen(seen, nowDocs) ==
    IF nowDocs # <<>> /\ seen = NoDate /\ toDateStrict(nowDocs[1].submittedAt) # NoDate
    THEN toDateStrict(nowDocs[1].submittedAt)
    ELSE seen

Deliver ==
    /\ main = "watching"
    /\ nDelivered < MaxSnapshots
    /\ \E S \in SUBSET GuessUniverse :
         LET nowDocs == liveQuery(S)
         IN  /\ inv' = [inv EXCEPT ![nDelivered + 1] = SnapshotStart(lastSeen, nowDocs, userEmailCache)]
             /\ lastSeen' = BaselineSeen(lastSeen, nowDocs)
    /\ nDelivered' = nDelivered + 1
    /\ UNCHANGED <<main, initDocs, initNext, userEmailCache>>
    /\ UNCHANGED <<reportVars, dayVars>>

\* Variant of AdvancedSeen: the assignment without its `latest > lastSeen` guard.
AdvancedSeenUnguarded(seen, fresh) ==
    LET latest == toDateStrict(fresh[Len(fresh)].submittedAt)
    IN  IF latest # NoDate THEN latest ELSE seen

\* lastSeen after the loop, lines 178-181.
AdvancedSeen(seen, fresh) ==
    LET latest == toDateStrict(fresh[Len(fresh)].submittedAt)
    IN  IF latest # NoDate /\ (seen = NoDate \/ latest > seen) THEN latest ELSE seen

\* One resumption of a suspended callback: the awaited lookup answers, printDoc logs
\* the document, and the loop goes on to the next printDoc (up to its await) or,
\* after the last one, to the update of lastSeen.
Resume(i) ==
    /\ inv[i].status = "running"
    /\ LET r == inv[i]
           d == r.fresh[r.next]
           last == r.next = Len(r.fresh)
       IN  \E answer \in EmailAnswers(d.playerId, r.pending) :
             LET cache == CacheAfter(userEmailCache, d.playerId, r.pending, answer)
             IN  /\ userEmailCache' = cache
                 /\ inv' = [inv EXCEPT ![i] =
                        [r EXCEPT !.printed = Append(r.printed, d.id),
                                  !.status = IF last THEN "done" ELSE "running",
                                  !.next = IF last THEN r.next ELSE r.next + 1,
                                  !.pending = IF last THEN None
                                              ELSE EmailBeforeAwait(cache, r.fresh[r.next + 1].playerId)]]
                 /\ lastSeen' = IF last THEN AdvancedSeen(lastSeen, r.fresh) ELSE lastSeen
    /\ UNCHANGED <<main, initDocs, initNext, nDelivered>>
    /\ UNCHANGED <<reportVars, dayVars>>

NextWatch ==
    \/ InitialLoad
    \/ InitialLoadFails
    \/ InitialPrint
    \/ Subscribe
    \/ Deliver
    \/ \E i \in 1..MaxSnapshots : Resume(i)

SpecWatch == InitWatch /\ [][NextWatch]_vars

(***************************************************************************)
(* src/unnamed/part_000 (gameStats-today.ts) and src/stats-today.ts.       *)
(***************************************************************************)
TIME_FIELDS == <<"submittedAt", "updatedAt", "lastUpdatedAt", "createdAt", "gameDate">>

\* The process has not exited.
Running == 0 - 1

Times(sa, ua, la, ca, gd) ==
    [submittedAt |-> sa, updatedAt |-> ua, lastUpdatedAt |-> la, createdAt |-> ca, gameDate |-> gd]

\* Seconds from the model's origin to 4 October 2025, 12:00Z (inside the window of
\* the reports), and to 3 October 12:00Z (before it).
SecInDay == DateUTC(2025, 9, 4, 12, 0, 0) \div MsPerSecond
SecDayBefore == DateUTC(2025, 9, 3, 12, 0, 0) \div MsPerSecond

TsIn == Val("timestamp", SecInDay, 0)
TsBefore == Val("timestamp", SecDayBefore, 0)

\* The first and the one-past-last instant of the local day of Indianapolis.
TsAtStart == Val("timestamp", DateUTC(2025, 9, 4, 4, 0, 0) \div MsPerSecond, 0)
TsAtEnd == Val("timestamp", DateUTC(2025, 9, 5, 4, 0, 0) \div MsPerSecond, 0)

\* The documents "gameStats" may hold.
StatsUniverse ==
    { [id |-> "s1", time |-> Times(TsIn, TsIn, Undefined, Undefined, Undefined),
       email |-> "a@example.com", playerId |-> None, totalPoints |-> 5],
      [id |-> "s2", time |-> Times(TsBefore, TsAtStart, TsIn, Undefined, Undefined),
       email |-> None, playerId |-> "p1", totalPoints |-> 7],
      [id |-> "s3", time |-> Times(Undefined, Undefined, Undefined,
                                   Val("datestr", SecInDay * MsPerSecond, 0), Undefined),
       email |-> None, playerId |-> "p2", totalPoints |-> 5],
      [id |-> "s4", time |-> Times(Val("zero", 0, 0), Val("secondsOnly", SecInDay, 0), TsAtEnd,
                                   Val("badToDate", 0, 0), Undefined),
       email |-> None, playerId |-> "p3", totalPoints |-> 0],
      [id |-> "s5", time |-> Times(Val("badToDate", 0, 0),
                                   Val("datestr", SecInDay * MsPerSecond, 0),
                                   Undefined, Undefined, Undefined),
       email |-> "b@example.com", playerId |-> "p1", totalPoints |-> 2],
      [id |-> "s6", time |-> Times(Null, Val("pojoNaN", 0, 0), TsAtEnd, Val("map", 0, 0),
                                   Val("badstr", 0, 0)),
       email |-> None, playerId |-> None, totalPoints |-> 1],
      [id |-> "s7", time |-> Times(TsBefore, Undefined, Undefined,
                                   Val("number", DateUTC(2025, 9, 5, 4, 0, 0), 0),
                                   Val("emptystr", 0, 0)),
       email |-> None, playerId |-> "p1", totalPoints |-> 3] }

\* The documents "guesses" may hold, for stats-today.ts; `totalPoints` is the
\* pointsAwarded after `Number(data?.pointsAwarded ?? 0)`.
TodayUniverse ==
    { [id |-> "t1", time |-> Times(TsIn, Undefined, Undefined, Undefined, Undefined),
       email |-> None, playerId |-> "p1", totalPoints |-> 0],
      [id |-> "t2", time |-> Times(TsAtStart, Undefined, Undefined, Undefined, Undefined),
       email |-> None, playerId |-> "p1", totalPoints |-> 3],
      [id |-> "t3", time |-> Times(TsAtEnd, Undefined, Undefined, Undefined, Undefined),
       email |-> None, playerId |-> "p2", totalPoints |-> 1],
      [id |-> "t4", time |-> Times(TsIn, Undefined, Undefined, Undefined, Undefined),
       email |-> None, playerId |-> None, totalPoints |-> 1] }

DocRank(id) ==
    CHOOSE k \in 1..11 :
        id = <<"s1", "s2", "s3", "s4", "s5", "s6", "s7", "t1", "t2", "t3", "t4">>[k]

\* The documents of S in the order a fetch lists them (by document id).
RECURSIVE FetchOrder(_)
FetchOrder(S) ==
    IF S = {} THEN <<>>
    ELSE LET first == CHOOSE d \in S : \A e \in S : DocRank(d.id) <= DocRank(e.id)
         IN  <<first>> \o FetchOrder(S \ {first})

\* where(f, ">=", startTs), where(f, "<", endTs): the server matches Timestamp
\* values of the field inside the range.
ServerMatches(d, f, w) ==
    /\ d.time[f].kind = "timestamp"
    /\ TimestampToDate(d.time[f]) >= w.start
    /\ TimestampToDate(d.time[f]) < w.end

ServerRange(S, f, w) == FetchOrder({d \in S : ServerMatches(d, f, w)})

\* The normalization inside the inRange filter, lines 167-175: what `dt` is after
\* it, or that the statement threw.
InlineDate(v) ==
    IF v.kind \in {"timestamp", "badToDate"}
    THEN IF v.kind = "timestamp"
         THEN [tag |-> "date", ms |-> TimestampToDate(v)]
         ELSE [tag |-> "throw", ms |-> NoDate]
    ELSE IF v.kind \in {"pojo", "secondsOnly", "pojoNaN"}
    THEN [tag |-> "date",
          ms |-> IF v.kind = "pojoNaN" THEN NoDate
                 ELSE PojoMs(v.a, IF v.kind = "pojo" THEN v.b ELSE 0)]
    ELSE IF v.kind = "date" THEN [tag |-> "date", ms |-> v.a]
    ELSE IF v.kind \in {"number", "datestr", "badstr"}
    THEN IF NewDateMs(v) = NoDate THEN [tag |-> "null", ms |-> NoDate]
         ELSE [tag |-> "date", ms |-> NewDateMs(v)]
    ELSE [tag |-> "null", ms |-> NoDate]

\* dt && dt >= start && dt < end
InWindow(dt, w) ==
    dt.tag = "date" /\ dt.ms # NoDate /\ dt.ms >= w.start /\ dt.ms < w.end

\* The filter callback on one document, from candidate k on: the field that
\* matched, None, or "throw".
RECURSIVE ScanDoc(_, _, _)
ScanDoc(d, k, w) ==
    IF k > Len(TIME_FIELDS) THEN None
    ELSE LET v == d.time[TIME_FIELDS[k]]
         IN  IF Falsy(v) THEN ScanDoc(d, k + 1, w)
             ELSE IF InlineDate(v).tag = "throw" THEN "throw"
             ELSE IF InWindow(InlineDate(v), w) THEN TIME_FIELDS[k]
             ELSE ScanDoc(d, k + 1, w)

\* all.filter(...), lines 163-182, one document further: the documents kept so
\* far, usedField, and whether the callback threw.
ScanStep(acc, d, w) ==
    IF acc.threw THEN acc
    ELSE LET m == ScanDoc(d, 1, w)
         IN  IF m = "throw" THEN [acc EXCEPT !.threw = TRUE]
             ELSE IF m = None THEN acc
             ELSE [acc EXCEPT !.inRange = Append(acc.inRange, d), !.usedField = m]

RECURSIVE ClientScan(_, _, _)
ClientScan(all, w, acc) ==
    IF all = <<>> THEN acc ELSE ClientScan(Tail(all), w, ScanStep(acc, Head(all), w))

\* Variant of FallbackDocs: the filtered list is used even when it is empty.
FallbackDocsFilteredOnly(inRange, all) == inRange

\* docs = inRange.length ? inRange : all, line 184.
FallbackDocs(inRange, all) == IF inRange # <<>> THEN inRange ELSE all

\* localeCompare on the e-mails the reports can print.
EmailRank(e) ==
    CHOOSE k \in 1..7 :
        e = <<"(error)", "(no email)", "(no playerId)", "(not found)",
              "a@example.com", "b@example.com", "user@example.com">>[k]

\* rows.sort: by the number descending, then by e-mail.
RowBefore(x, y) ==
    \/ x.points > y.points
    \/ x.points = y.points /\ EmailRank(x.email) < EmailRank(y.email)

RECURSIVE InsertRow(_, _)
InsertRow(r, s) ==
    IF s = <<>> THEN <<r>>
    ELSE IF RowBefore(r, Head(s)) THEN <<r>> \o s
    ELSE <<Head(s)>> \o InsertRow(r, Tail(s))

RECURSIVE SortRows(_)
SortRows(s) == IF s = <<>> THEN <<>> ELSE InsertRow(s[Len(s)], SortRows(SubSeq(s, 1, Len(s) - 1)))

\* getUserEmail of the reports: the cache, the fetch or its failure.
ReportEmails(cache, playerId) == EmailAnswers(playerId, EmailBeforeAwait(cache, playerId))

InitReports ==
    /\ IdleWatch
    /\ IdleDay
    /\ script \in {"gameStats", "statsToday"}
    /\ coll \in IF script = "gameStats" THEN SUBSET StatsUniverse ELSE SUBSET TodayUniverse
    /\ pc = "start"
    /\ window = [start |-> 0, end |-> 0]
    /\ fieldIdx = 0
    /\ outcomes = <<>>
    /\ fetchAllCount = 0
    /\ fallbackOutcome = None
    /\ docs = <<>>
    /\ usedField = None
    /\ diagnostic = None
    /\ rowIdx = 0
    /\ rows = <<>>
    /\ table = <<>>
    /\ emailCache = <<>>
    /\ exitCode = Running

\* Lines 123-135 of part_000: the window of 4 October 2025 and the locals.
GameStatsStart ==
    /\ script = "gameStats" /\ pc = "start"
    /\ window' = dayRangeUTC(2025, 10, 4, "America/Indiana/Indianapolis")
    /\ fieldIdx' = 1
    /\ pc' = "probe"
    /\ UNCHANGED <<script, coll, outcomes, fetchAllCount, fallbackOutcome, docs, usedField, diagnostic,
                   rowIdx, rows, table, emailCache, exitCode>>
    /\ UNCHANGED <<watchVars, dayVars>>

\* Variant of ProbeNext: the loop goes on after a candidate returned documents.
ProbeNextNoBreak(k, found) == IF k < Len(TIME_FIELDS) THEN "probe" ELSE "fallback"

\* Where the loop of lines 138-154 goes after candidate k.
ProbeNext(k, found) == IF found \/ k = Len(TIME_FIELDS) THEN "fallback" ELSE "probe"

\* One iteration of the loop over TIME_FIELDS, lines 138-154.
GameStatsProbe ==
    /\ script = "gameStats" /\ pc = "probe"
    /\ LET f == TIME_FIELDS[fieldIdx]
           result == ServerRange(coll, f, window)
       IN  \E threw \in BOOLEAN :
             /\ outcomes' = Append(outcomes,
                    [field |-> f,
                     result |-> IF threw THEN "threw" ELSE IF result = <<>> THEN "empty" ELSE "docs"])
             /\ usedField' = IF ~threw /\ result # <<>> THEN f ELSE usedField
             /\ docs' = IF ~threw /\ result # <<>> THEN result ELSE docs
             /\ pc' = ProbeNext(fieldIdx, ~threw /\ result # <<>>)
             /\ fieldIdx' = fieldIdx + 1
    /\ UNCHANGED <<script, coll, window, fetchAllCount, fallbackOutcome, diagnostic, rowIdx, rows, table,
                   emailCache, exitCode>>
    /\ UNCHANGED <<watchVars, dayVars>>

\* Lines 157-189: the guard, the fetch of the whole collection, the scan; a
\* throw inside the try block ends the process with status 1.
GameStatsFallback ==
    /\ script = "gameStats" /\ pc = "fallback"
    /\ IF docs # <<>>
       THEN /\ pc' = "diagnostic"
            /\ fallbackOutcome' = "skipped"
            /\ UNCHANGED <<fetchAllCount, docs, usedField, exitCode>>
       ELSE /\ fetchAllCount' = fetchAllCount + 1
            /\ \E fetchThrows \in BOOLEAN :
                 LET all == FetchOrder(coll)
                     scan == ClientScan(all, window,
                                 [inRange |-> <<>>, usedField |-> usedField, threw |-> FALSE])
                 IN  IF fetchThrows \/ scan.threw
                     THEN /\ pc' = "exited"
                          /\ exitCode' = 1
                          /\ fallbackOutcome' = IF fetchThrows THEN "fetchThrew" ELSE "scanThrew"
                          /\ usedField' = IF fetchThrows THEN usedField ELSE scan.usedField
                          /\ UNCHANGED docs
                     ELSE /\ pc' = "diagnostic"
                          /\ fallbackOutcome' = "scanned"
                          /\ docs' = FallbackDocs(scan.inRange, all)
                          /\ usedField' = scan.usedField
                          /\ UNCHANGED exitCode
    /\ UNCHANGED <<script, coll, window, fieldIdx, outcomes, diagnostic, rowIdx, rows, table,
                   emailCache>>
    /\ UNCHANGED <<watchVars, dayVars>>

\* Lines 191-195.
GameStatsDiagnostic ==
    /\ script = "gameStats" /\ pc = "diagnostic"
    /\ diagnostic' = IF usedField # None THEN "Filtered by" ELSE "No usable date field found"
    /\ rowIdx' = 1
    /\ pc' = IF docs = <<>> THEN "print" ELSE "rows"
    /\ UNCHANGED <<script, coll, window, fieldIdx, outcomes, fetchAllCount, fallbackOutcome, docs, usedField,
                   rows, table, emailCache, exitCode>>
    /\ UNCHANGED <<watchVars, dayVars>>

\* One iteration of the loop of lines 199-212.
GameStatsRow ==
    /\ script = "gameStats" /\ pc = "rows"
    /\ LET d == docs[rowIdx]
           lookup == d.email = None /\ d.playerId # None
       IN  \E email \in IF lookup THEN ReportEmails(emailCache, d.playerId)
                        ELSE {IF d.email # None THEN d.email ELSE "(no email)"} :
             /\ rows' = Append(rows, [email |-> email, points |-> d.totalPoints])
             /\ emailCache' = IF lookup
                              THEN CacheAfter(emailCache, d.playerId,
                                              EmailBeforeAwait(emailCache, d.playerId), email)
                              ELSE emailCache
    /\ rowIdx' = rowIdx + 1
    /\ pc' = IF rowIdx = Len(docs) THEN "print" ELSE "rows"
    /\ UNCHANGED <<script, coll, window, fieldIdx, outcomes, fetchAllCount, fallbackOutcome, docs, usedField,
                   diagnostic, table, exitCode>>
    /\ UNCHANGED <<watchVars, dayVars>>

\* printTable(rows), lines 77-117, and the end of main.
GameStatsPrintTable ==
    /\ script = "gameStats" /\ pc = "print"
    /\ table' = SortRows(rows)
    /\ pc' = "exited"
    /\ exitCode' = 0
    /\ UNCHANGED <<script, coll, window, fieldIdx, outcomes, fetchAllCount, fallbackOutcome, docs, usedField,
                   diagnostic, rowIdx, rows, emailCache>>
    /\ UNCHANGED <<watchVars, dayVars>>

\* Lines 90-102 of stats-today.ts.
TodayStart ==
    /\ script = "statsToday" /\ pc = "start"
    /\ window' = dayRangeUTCStatsToday(2025, 10, 4, "America/Indiana/Indianapolis")
    /\ pc' = "query"
    /\ UNCHANGED <<script, coll, fieldIdx, outcomes, fetchAllCount, fallbackOutcome, docs, usedField, diagnostic,
                   rowIdx, rows, table, emailCache, exitCode>>
    /\ UNCHANGED <<watchVars, dayVars>>

\* Lines 104-113: the one query; its failure ends the process with status 1.
TodayQuery ==
    /\ script = "statsToday" /\ pc = "query"
    /\ \E threw \in BOOLEAN :
         LET result == ServerRange(coll, "submittedAt", window)
         IN  /\ outcomes' = Append(outcomes,
                    [field |-> "submittedAt",
                     result |-> IF threw THEN "threw" ELSE IF result = <<>> THEN "empty" ELSE "docs"])
             /\ docs' = IF threw THEN docs ELSE result
             /\ pc' = IF threw THEN "exited" ELSE IF result = <<>> THEN "print" ELSE "rows"
             /\ exitCode' = IF threw THEN 1 ELSE exitCode
             /\ rowIdx' = IF threw THEN rowIdx ELSE 1
    /\ UNCHANGED <<script, coll, window, fieldIdx, fetchAllCount, fallbackOutcome, usedField, diagnostic, rows,
                   table, emailCache>>
    /\ UNCHANGED <<watchVars, dayVars>>

\* stats.get(email) ?? {total: 0, correct: 0}, then the two increments.
Counted(rs, email, correct) ==
    IF \E k \in 1..Len(rs) : rs[k].email = email
    THEN [k \in 1..Len(rs) |->
            IF rs[k].email = email
            THEN [rs[k] EXCEPT !.points = @ + 1, !.correct = @ + (IF correct THEN 1 ELSE 0)]
            ELSE rs[k]]
    ELSE Append(rs, [email |-> email, points |-> 1, correct |-> IF correct THEN 1 ELSE 0])

\* One iteration of the aggregation, lines 118-129.
TodayAggregate ==
    /\ script = "statsToday" /\ pc = "rows"
    /\ LET d == docs[rowIdx]
       IN  \E email \in ReportEmails(emailCache, d.playerId) :
             /\ rows' = Counted(rows, email, d.totalPoints # 0)
             /\ emailCache' = CacheAfter(emailCache, d.playerId,
                                         EmailBeforeAwait(emailCache, d.playerId), email)
    /\ rowIdx' = rowIdx + 1
    /\ pc' = IF rowIdx = Len(docs) THEN "print" ELSE "rows"
    /\ UNCHANGED <<script, coll, window, fieldIdx, outcomes, fetchAllCount, fallbackOutcome, docs, usedField,
                   diagnostic, table, exitCode>>
    /\ UNCHANGED <<watchVars, dayVars>>

\* Lines 131-145: the sorted lines, or "No guesses found".
TodayPrint ==
    /\ script = "statsToday" /\ pc = "print"
    /\ table' = SortRows(rows)
    /\ pc' = "exited"
    /\ exitCode' = 0
    /\ UNCHANGED <<script, coll, window, fieldIdx, outcomes, fetchAllCount, fallbackOutcome, docs, usedField,
                   diagnostic, rowIdx, rows, emailCache>>
    /\ UNCHANGED <<watchVars, dayVars>>

NextReports ==
    \/ GameStatsStart
    \/ GameStatsProbe
    \/ GameStatsFallback
    \/ GameStatsDiagnostic
    \/ GameStatsRow
    \/ GameStatsPrintTable
    \/ TodayStart
    \/ TodayQuery
    \/ TodayAggregate
    \/ TodayPrint

SpecReports == InitReports /\ [][NextReports]_vars

(***************************************************************************)
(* dayRangeUTC on its own: one call with arguments from bounded sets.      *)
(***************************************************************************)
\* Days of October 2025 the call is made for; days past 31 roll into November.
MaxDay == 34

\* stats-today.ts only ever passes its own zone.
DayInputs ==
    [variant : {"gameStats"}, timeZone : TimeZones, month : {10}, day : 1..MaxDay]
        \cup [variant : {"statsToday"}, timeZone : {"America/Indiana/Indianapolis"},
              month : {10}, day : 1..MaxDay]

InitDay ==
    /\ IdleWatch
    /\ IdleReports
    /\ dayIn \in DayInputs
    /\ dayOut = [start |-> 0, end |-> 0, done |-> FALSE]

CallDayRange ==
    /\ ~dayOut.done
    /\ LET range == IF dayIn.variant = "gameStats"
                    THEN dayRangeUTC(2025, dayIn.month, dayIn.day, dayIn.timeZone)
                    ELSE dayRangeUTCStatsToday(2025, dayIn.month, dayIn.day, dayIn.timeZone)
       IN  dayOut' = [start |-> range.start, end |-> range.end, done |-> TRUE]
    /\ UNCHANGED <<dayIn, watchVars, reportVars>>

NextDay == CallDayRange

SpecDay == InitDay /\ [][NextDay]_vars

(***************************************************************************)
(* Properties of the watch script.                                         *)
(***************************************************************************)
Range(s) == {s[k] : k \in 1..Len(s)}

GuessOf(id) == CHOOSE d \in GuessUniverse : d.id = id

InstantOf(id) == toDateStrict(GuessOf(id).submittedAt)

\* The documents of a snapshot that are strictly newer than `seen`.
NewerIn(snap, seen) ==
    {d.id : d \in {e \in Range(snap) : InstantOf(e.id) # NoDate /\ InstantOf(e.id) > seen}}

PrintedExactlyNewer(r) ==
    /\ Range(r.printed) = NewerIn(r.snap, r.startSeen)
    /\ Len(r.printed) = Cardinality(NewerIn(r.snap, r.startSeen))
    /\ \A j, k \in 1..Len(r.printed) : j < k => InstantOf(r.printed[j]) <= InstantOf(r.printed[k])

\* C1: a callback that starts with a non-empty lastSeen prints exactly the documents
\* of its snapshot whose submittedAt normalizes to an instant strictly greater than
\* that lastSeen, oldest first; equal, older and unparseable ones are not printed.
C1_PrintsExactlyNewerAscending ==
    \A i \in 1..MaxSnapshots :
        (inv[i].status = "done" /\ inv[i].startSeen # NoDate) => PrintedExactlyNewer(inv[i])

\* A finished callback that printed two documents, in the order opposite to the
\* snapshot's, and skipped one equal to lastSeen and an unparseable one.
C1_Witness ==
    \E i \in 1..MaxSnapshots :
        /\ inv[i].status = "done"
        /\ inv[i].startSeen # NoDate
        /\ Len(inv[i].printed) >= 2
        /\ \E d \in Range(inv[i].snap) : InstantOf(d.id) = inv[i].startSeen
        /\ \E d \in Range(inv[i].snap) : InstantOf(d.id) = NoDate

\* C2: lastSeen never moves to an earlier instant and, once set, is never empty
\* again, whatever snapshots arrive and however the callbacks interleave.
C2_LastSeenMonotone ==
    [][lastSeen # NoDate => (lastSeen' # NoDate /\ lastSeen' >= lastSeen)]_vars

\* A suspended callback is about to finish with a newest document older than the
\* lastSeen a later callback has set meanwhile.
C2_Witness ==
    \E i, j \in 1..MaxSnapshots :
        /\ i < j
        /\ inv[i].status = "running"
        /\ inv[i].next = Len(inv[i].fresh)
        /\ inv[j].status = "done"
        /\ inv[j].printed # <<>>
        /\ InstantOf(inv[i].fresh[Len(inv[i].fresh)].id) < lastSeen

RECURSIVE CountIn(_, _)
CountIn(id, s) ==
    IF s = <<>> THEN 0 ELSE (IF Head(s) = id THEN 1 ELSE 0) + CountIn(id, Tail(s))

RECURSIVE TimesPrinted(_, _)
TimesPrinted(id, i) ==
    IF i = 0 THEN 0 ELSE CountIn(id, inv[i].printed) + TimesPrinted(id, i - 1)

\* C3: the live listener prints no document more than once, also when a snapshot
\* is delivered while an earlier callback is suspended in an awaited print.
C3_NoDocumentPrintedTwice ==
    \A d \in GuessUniverse : TimesPrinted(d.id, MaxSnapshots) <= 1

\* C4 as claimed: the first callback prints nothing and leaves lastSeen at the
\* instant of the first element of its batch, whatever the initial load found.
C4_FirstCallbackPrintsNothing ==
    inv[1].status # "idle" =>
        /\ inv[1].status = "done"
        /\ inv[1].printed = <<>>
        /\ (nDelivered = 1 /\ inv[1].snap # <<>>) =>
               lastSeen = toDateStrict(inv[1].snap[1].submittedAt)

\* C4 amended: the first callback prints nothing when lastSeen is still empty at
\* its start, and then leaves lastSeen at the normalized submittedAt of the first
\* element of its batch (empty if the batch is empty or that value does not
\* normalize); when the initial load has set lastSeen, it prints exactly the
\* documents strictly newer than it.
C4_FirstCallbackBaseline ==
    /\ (inv[1].status # "idle" /\ inv[1].startSeen = NoDate) =>
           /\ inv[1].status = "done"
           /\ inv[1].printed = <<>>
           /\ nDelivered = 1 =>
                  lastSeen = IF inv[1].snap = <<>> THEN NoDate
                             ELSE toDateStrict(inv[1].snap[1].submittedAt)
    /\ (inv[1].status = "done" /\ inv[1].startSeen # NoDate) =>
           Range(inv[1].printed) = NewerIn(inv[1].snap, inv[1].startSeen)

\* The first callback ran as the baseline on a batch of several documents.
C4_Witness ==
    /\ nDelivered = 1
    /\ inv[1].status = "done"
    /\ inv[1].startSeen = NoDate
    /\ Len(inv[1].snap) >= 2
    /\ lastSeen # NoDate
    /\ inv[1].printed = <<>>

(***************************************************************************)
(* Properties of the gameStats report and of stats-today.                  *)
(***************************************************************************)
ProbeFailed(k) == outcomes[k].result \in {"threw", "empty"}

AllProbesFailed == Len(outcomes) = Len(TIME_FIELDS) /\ \A k \in 1..Len(outcomes) : ProbeFailed(k)

\* C5: the candidates are queried in list order; a query that throws is swallowed
\* and the next one tried; the first query that returns documents decides the
\* used field and the documents, no later candidate is queried, and the whole
\* collection is never fetched.
C5_FirstSuccessfulCandidateWins ==
    script = "gameStats" =>
        /\ \A k \in 1..Len(outcomes) : outcomes[k].field = TIME_FIELDS[k]
        /\ \A k \in 1..Len(outcomes) :
               IF ProbeFailed(k)
               THEN k < Len(TIME_FIELDS) => (Len(outcomes) > k \/ pc = "probe")
               ELSE /\ k = Len(outcomes)
                    /\ pc # "probe"
                    /\ usedField = TIME_FIELDS[k]
                    /\ docs # <<>>
                    /\ Range(docs) = {d \in coll : ServerMatches(d, TIME_FIELDS[k], window)}
                    /\ fetchAllCount = 0
                    /\ fallbackOutcome \in {None, "skipped"}

\* The first candidate threw, the second returned two documents, and the run
\* ended without a third query.
C5_Witness ==
    /\ script = "gameStats"
    /\ pc = "exited"
    /\ Len(outcomes) = 2
    /\ outcomes[1].result = "threw"
    /\ outcomes[2].result = "docs"
    /\ Len(docs) = 2
    /\ \E d \in coll : ServerMatches(d, "lastUpdatedAt", window)

AnyFieldInWindow(d) ==
    \E k \in 1..Len(TIME_FIELDS) : InWindow(InlineDate(d.time[TIME_FIELDS[k]]), window)

KeptByScan == FetchOrder({d \in coll : AnyFieldInWindow(d)})

C7_GameStatsFetchFailureDegrades ==
    /\ (script = "statsToday" /\ outcomes # <<>> /\ outcomes[1].result = "threw") => exitCode = 1
    /\ (script = "gameStats" /\ fallbackOutcome = "fetchThrew") => (exitCode # 1 /\ pc # "exited")

\* C8: no field value makes the normalization throw: a malformed value is left
\* out of the date-range test and neither halts the scan nor ends the process.
C8_MalformedValueNeverHaltsScan ==
    script = "gameStats" => fallbackOutcome # "scanThrew"

FirstFieldInWindow(d) ==
    TIME_FIELDS[CHOOSE k \in 1..Len(TIME_FIELDS) :
        /\ InWindow(InlineDate(d.time[TIME_FIELDS[k]]), window)
        /\ \A j \in 1..(k - 1) : ~InWindow(InlineDate(d.time[TIME_FIELDS[j]]), window)]

\* C10: after the client-side scan the used field is the first candidate inside
\* the window of the first document, in fetch order, that has one.
C10_UsedFieldIsFirstMatch ==
    (script = "gameStats" /\ fallbackOutcome = "scanned" /\ KeptByScan # <<>>) =>
        usedField = FirstFieldInWindow(KeptByScan[1])

(***************************************************************************)
(* Properties of dayRangeUTC.                                              *)
(***************************************************************************)
\* The instant at which the wall clock of the zone reads 00:00 of the day.
TrueLocalMidnight(timeZone, day) ==
    LET wall == DateUTC(2025, 9, day, 0, 0, 0)
        offsets == {UtcOffsetMs(timeZone, DateUTC(2025, 9, 1, 0, 0, 0)),
                    UtcOffsetMs(timeZone, DateUTC(2025, 9, MaxDay + 2, 0, 0, 0))}
    IN  CHOOSE t \in {wall - o : o \in offsets} : t + UtcOffsetMs(timeZone, t) = wall

TrueDayLength(timeZone, day) ==
    TrueLocalMidnight(timeZone, day + 1) - TrueLocalMidnight(timeZone, day)

\* The zone whose offset the call samples.
ZoneUsed == IF dayIn.variant = "statsToday" THEN "America/Indiana/Indianapolis" ELSE dayIn.timeZone

\* C9: the window is as long as the local day (23h or 25h on a day
\* with a daylight-saving transition) and its ends are the true local midnights.
C9_WindowIsTrueLocalDay ==
    dayOut.done =>
        /\ dayOut.end - dayOut.start = TrueDayLength(ZoneUsed, dayIn.day)
        /\ dayOut.start = TrueLocalMidnight(ZoneUsed, dayIn.day)
        /\ dayOut.end = TrueLocalMidnight(ZoneUsed, dayIn.day + 1)

====
